---- MODULE Spec2Model ----
(***************************************************************************)
(* kd-exsample-backend: an Express service with two directory-backed       *)
(* stores.  The blob store (POST /upload, GET /file/:fileId) keeps one     *)
(* file "<uuid><ext>" per upload; the document store (POST /canvas,        *)
(* GET /canvas, GET /canvas/:id) keeps one file "<uuid>.json" per canvas.  *)
(*                                                                         *)
(* Strings are sequences of one-character strings.  A directory is a set   *)
(* of entries; the order in which readdir yields them is chosen by the     *)
(* file system and is an input of every handler that lists a directory.   *)
(* I/O failures are inputs of the handlers as well.                        *)
(***************************************************************************)
EXTENDS Integers, Sequences, FiniteSets

\* ------------------------------------------------------------- bounds
\* Length of a generated identifier (a v4 uuid has one fixed length).
IdLen == 2
\* Longest original file name of an upload.
MaxNameLen == 2
\* Longest uploaded content, in bytes.
MaxContentLen == 1
\* Entries both directories hold together at most.
MaxEntries == 2
\* Latest instant of the wall clock.
MaxTime == 1

IdChars == {"a", "b"}
NameChars == {"x", "."}
Bytes == {1, 2}

\* All strings over alphabet A with length in lo..hi.
Strings(A, lo, hi) == UNION {[1..n -> A] : n \in lo..hi}

Ids == Strings(IdChars, IdLen, IdLen)
Names == Strings(NameChars, 1, MaxNameLen)
Contents == Strings(Bytes, 1, MaxContentLen)

\* ------------------------------------------------------ string helpers
StartsWith(s, p) == Len(p) <= Len(s) /\ SubSeq(s, 1, Len(p)) = p
EndsWith(s, p) == Len(p) <= Len(s) /\ SubSeq(s, Len(s) - Len(p) + 1, Len(s)) = p

\* Index of the last "." of s, 0 when s has none.
LastDot(s) ==
    LET D == {i \in 1..Len(s) : s[i] = "."}
    IN IF D = {} THEN 0 ELSE CHOOSE i \in D : \A j \in D : j <= i

\* A path.extname without its special cases: from the last "." in any case.
ExtNameFromLastDot(p) ==
    IF LastDot(p) = 0 THEN <<>> ELSE SubSeq(p, LastDot(p), Len(p))

\* path.extname on a name without path separators: from the last "." to the
\* end; empty when there is no ".", when the last "." is the first
\* character, or when the name is "..".
ExtName(p) ==
    LET startDot == LastDot(p)
    IN IF startDot = 0 THEN <<>>
       ELSE IF startDot = 1 THEN <<>>
       ELSE IF p[1] = "." /\ startDot = Len(p) /\ startDot = 2 THEN <<>>
       ELSE SubSeq(p, startDot, Len(p))

\* path.parse(filename).name: the name without its extension.
ParseName(filename) == SubSeq(filename, 1, Len(filename) - Len(ExtName(filename)))

\* All orders in which readdir can yield the entries of directory d.
Listings(d) ==
    {l \in [1..Cardinality(d) -> d] : \A i, j \in 1..Cardinality(d) : l[i] = l[j] => i = j}

\* Array.prototype.find: the first element of l among those satisfying the
\* predicate (the set matching), as a set of at most one element.
FindFirst(l, matching) ==
    LET I == {i \in 1..Len(l) : l[i] \in matching}
    IN IF I = {} THEN {} ELSE {l[CHOOSE i \in I : \A j \in I : i <= j]}

VARIABLES
    fileDir,       \* entries of the blob directory
    canvasExists,  \* whether the document directory exists
    canvasDir,     \* entries of the document directory
    uploads,       \* what POST /upload has answered with 200: fileId and content
    created,       \* what POST /canvas has answered with 201: the structures
    last           \* the last handler step and what its caller observed

vars == <<fileDir, canvasExists, canvasDir, uploads, created, last>>

\* Identifiers in use as the leading part of some entry name.
UsedIds == {SubSeq(e.name, 1, IdLen) : e \in fileDir \cup canvasDir}

\* An identifier generator that can repeat itself.
Uuidv4Repeating == Ids

\* uuidv4(): a fresh random identifier.
Uuidv4 == Ids \ UsedIds

\* Opening dir/<entry.name> for writing: a file of that name is replaced.
WriteEntry(dir, entry) == {e \in dir : e.name # entry.name} \cup {entry}

Budget == Cardinality(fileDir) + Cardinality(canvasDir) < MaxEntries

\* ----------------------------------------------------------- blob store
\* storage.filename: "<uuid><extension of the original name>".
StorageFilename(fileId, originalname) == fileId \o ExtName(originalname)

\* POST /upload, multer's disk storage opening the destination file: the
\* entry appears in the directory, still empty, while the body streams in.
UploadStart(originalname, content) ==
    /\ Budget
    /\ \E fileId \in Uuidv4 :
         LET filename == StorageFilename(fileId, originalname)
         IN /\ fileDir' = WriteEntry(fileDir,
                  [name |-> filename, data |-> <<>>, content |-> content, st |-> "writing"])
            /\ last' = [op |-> "uploadStart", orig |-> originalname, filename |-> filename]
    /\ UNCHANGED <<canvasExists, canvasDir, uploads, created>>

\* The next byte of an upload in flight reaches the disk.
UploadWrite(e) ==
    /\ e \in fileDir /\ e.st = "writing" /\ Len(e.data) < Len(e.content)
    /\ fileDir' = (fileDir \ {e}) \cup
          {[e EXCEPT !.data = SubSeq(e.content, 1, Len(e.data) + 1)]}
    /\ last' = [op |-> "uploadWrite", filename |-> e.name]
    /\ UNCHANGED <<canvasExists, canvasDir, uploads, created>>

\* The handler of POST /upload once multer has stored the file: the answer
\* carries the file name without its extension.
UploadFinish(e) ==
    /\ e \in fileDir /\ e.st = "writing" /\ e.data = e.content
    /\ fileDir' = (fileDir \ {e}) \cup {[e EXCEPT !.st = "done"]}
    /\ uploads' = uploads \cup {[fileId |-> ParseName(e.name), content |-> e.content]}
    /\ last' = [op |-> "upload", status |-> 200, field |-> "file", fault |-> "none",
                fileId |-> ParseName(e.name), filename |-> e.name]
    /\ UNCHANGED <<canvasExists, canvasDir, created>>

\* The write stream of an upload in flight fails (disk full): multer passes
\* the error on, the handler never runs, and nothing removes what was written.
UploadStreamError(e) ==
    /\ e \in fileDir /\ e.st = "writing"
    /\ fileDir' = (fileDir \ {e}) \cup {[e EXCEPT !.st = "failed"]}
    /\ last' = [op |-> "upload", status |-> 500, field |-> "file", fault |-> "write",
                filename |-> e.name]
    /\ UNCHANGED <<canvasExists, canvasDir, uploads, created>>

\* The destination file cannot be opened: no entry, an error answer.
UploadOpenError ==
    /\ last' = [op |-> "upload", status |-> 500, field |-> "file", fault |-> "open"]
    /\ UNCHANGED <<fileDir, canvasExists, canvasDir, uploads, created>>

\* POST /upload without any file part: req.file is undefined.
UploadWithoutFile ==
    /\ last' = [op |-> "upload", status |-> 400, field |-> "none", fault |-> "none"]
    /\ UNCHANGED <<fileDir, canvasExists, canvasDir, uploads, created>>

\* POST /upload with a file part in another field than `file`:
\* upload.single('file') rejects it before the handler runs, and with no
\* error handler installed the framework answers 500.
UploadUnexpectedField ==
    /\ last' = [op |-> "upload", status |-> 500, field |-> "other", fault |-> "none"]
    /\ UNCHANGED <<fileDir, canvasExists, canvasDir, uploads, created>>

\* Arguments of GET /file/:fileId: every non-empty string up to an
\* identifier's length, so identifiers and their proper prefixes.
FileIdArgs == Strings(IdChars, 1, IdLen)

\* A find predicate that takes whatever entry comes first.
IsTargetAny(file, fileId) == TRUE

\* The predicate of files.find in GET /file/:fileId.
IsTarget(file, fileId) == StartsWith(file.name, fileId)

\* GET /file/:fileId.
GetFile(fileId, readdirErr) ==
    /\ \E files \in (IF readdirErr THEN {<<>>} ELSE Listings(fileDir)) :
         LET targetFile == FindFirst(files, {f \in fileDir : IsTarget(f, fileId)})
         IN last' =
              IF readdirErr
              THEN [op |-> "get", fault |-> "readdir", status |-> 500]
              ELSE IF targetFile = {}
              THEN [op |-> "get", arg |-> fileId, fault |-> "none", status |-> 404]
              ELSE LET t == CHOOSE t \in targetFile : TRUE
                   IN [op |-> "get", arg |-> fileId, fault |-> "none", status |-> 200,
                       served |-> t.name, body |-> t.data]
    /\ UNCHANGED <<fileDir, canvasExists, canvasDir, uploads, created>>

\* ------------------------------------------------------- document store
\* JavaScript values: strings, numbers, the ISO-8601 string of an instant,
\* and undefined (what reading an absent property yields).
Str(s) == [kind |-> "str", s |-> s, n |-> 0]
Num(n) == [kind |-> "num", s |-> <<>>, n |-> n]
Undefined == [kind |-> "undefined", s |-> <<>>, n |-> 0]

\* new Date().toISOString() at instant t.
ToISOString(t) == [kind |-> "iso", s |-> <<>>, n |-> t]

\* An object is the sequence of its <<key, value>> properties, in property
\* order, each key once.
ObjKeys(o) == {o[i][1] : i \in 1..Len(o)}
ObjGet(o, k) ==
    IF k \in ObjKeys(o) THEN o[CHOOSE i \in 1..Len(o) : o[i][1] = k][2] ELSE Undefined
ObjSet(o, k, v) ==
    IF k \in ObjKeys(o)
    THEN [i \in 1..Len(o) |-> IF o[i][1] = k THEN <<k, v>> ELSE o[i]]
    ELSE Append(o, <<k, v>>)

\* { ...o, ...src }: every property of src set on o, in order.
RECURSIVE Spread(_, _)
Spread(o, src) ==
    IF src = <<>> THEN o
    ELSE Spread(ObjSet(o, src[1][1], src[1][2]), Tail(src))

\* The object literal of POST /canvas:
\* { id: canvasId, ...canvasData, createAt: new Date().toISOString() }.
NewCanvas(canvasId, canvasData, t) ==
    ObjSet(Spread(<<<<"id", Str(canvasId)>>>>, canvasData), "createAt", ToISOString(t))

\* JSON.stringify(o, null, 2) of a flat object: a line "{", one line per
\* property, a line "}".
OpenBrace == <<"{", Undefined>>
CloseBrace == <<"}", Undefined>>
JsonStringify(o) == <<OpenBrace>> \o o \o <<CloseBrace>>

\* JSON.parse: the object when the text is a complete object, a SyntaxError
\* (ok = FALSE) otherwise.
JsonParse(text) ==
    IF Len(text) >= 2 /\ text[1] = OpenBrace /\ text[Len(text)] = CloseBrace
    THEN [ok |-> TRUE, value |-> SubSeq(text, 2, Len(text) - 1)]
    ELSE [ok |-> FALSE, value |-> <<>>]

DotJson == <<".", "j", "s", "o", "n">>

\* Bodies a caller posts to /canvas.
CanvasBodies ==
    { <<<<"title", Str(<<"x">>)>>>>,
      <<<<"id", Str(<<"a", "a">>)>>, <<"createAt", Str(<<"x">>)>>>>,
      <<<<"createDate", Num(1)>>>>,
      <<<<"createDate", Num(2)>>>> }

\* How fs.writeFileSync ends: written, or failing at open (nothing is
\* created), or failing while writing (the file holds a proper prefix).
WriteFaults == {"none", "open", "write"}

\* The instants new Date() can yield: the wall clock never runs backwards,
\* so none before the creation instant of a stored document.
Clock ==
    LET stamps == {ObjGet(JsonParse(e.text).value, "createAt").n :
                      e \in {d \in canvasDir : d.st = "done"}}
    IN {t \in 0..MaxTime : \A u \in stamps : u <= t}

\* POST /canvas, answered at instant t.
CreateCanvas(canvasData, fault, t) ==
    /\ Budget
    /\ \E canvasId \in Uuidv4 :
         LET newCanvas == NewCanvas(canvasId, canvasData, t)
             filePath == canvasId \o DotJson
             text == JsonStringify(newCanvas)
         IN IF ~canvasExists \/ fault = "open"
            THEN /\ canvasDir' = canvasDir
                 /\ created' = created
                 /\ last' = [op |-> "create", status |-> 500, req |-> canvasData,
                             fault |-> fault, dir |-> canvasExists]
            ELSE IF fault = "write"
            THEN \E k \in 0..(Len(text) - 1) :
                 /\ canvasDir' = WriteEntry(canvasDir,
                       [name |-> filePath, text |-> SubSeq(text, 1, k), st |-> "failed"])
                 /\ created' = created
                 /\ last' = [op |-> "create", status |-> 500, req |-> canvasData,
                             fault |-> fault, dir |-> canvasExists, filename |-> filePath]
            ELSE /\ canvasDir' = WriteEntry(canvasDir,
                       [name |-> filePath, text |-> text, st |-> "done"])
                 /\ created' = created \cup {newCanvas}
                 /\ last' = [op |-> "create", status |-> 201, req |-> canvasData,
                             fault |-> fault, dir |-> canvasExists, filename |-> filePath,
                             at |-> t, body |-> newCanvas]
    /\ UNCHANGED <<fileDir, canvasExists, uploads>>

\* ToNumber of a property value: a number is itself, undefined and the
\* strings that occur here (none of them numeric) are NaN.
ToNumber(v) == IF v.kind = "num" THEN [nan |-> FALSE, n |-> v.n] ELSE [nan |-> TRUE, n |-> 0]

\* The comparator (a, b) => b.createDate - a.createDate; sort reads a NaN
\* result as +0.
CompareFn(a, b) ==
    LET x == ToNumber(ObjGet(b, "createDate"))
        y == ToNumber(ObjGet(a, "createDate"))
    IN IF x.nan \/ y.nan THEN 0 ELSE x.n - y.n

\* Whether CompareFn is a consistent comparator for the elements of s.
Consistent(s) ==
    \A i, j, k \in 1..Len(s) :
      /\ (CompareFn(s[i], s[j]) = 0 /\ CompareFn(s[j], s[k]) = 0) => CompareFn(s[i], s[k]) = 0
      /\ (CompareFn(s[i], s[j]) < 0 /\ CompareFn(s[j], s[k]) < 0) => CompareFn(s[i], s[k]) < 0
      /\ (CompareFn(s[i], s[j]) > 0 /\ CompareFn(s[j], s[k]) > 0) => CompareFn(s[i], s[k]) > 0

IndexOrders(n) == {p \in [1..n -> 1..n] : \A i, j \in 1..n : p[i] = p[j] => i = j}

\* Array.prototype.sort with CompareFn: the stable sort when the comparator
\* is consistent, an implementation-defined order otherwise.
SortResults(s) ==
    LET Stable(p) == \A i, j \in 1..Len(s) : i < j =>
                        \/ CompareFn(s[p[i]], s[p[j]]) < 0
                        \/ CompareFn(s[p[i]], s[p[j]]) = 0 /\ p[i] < p[j]
    IN {[i \in 1..Len(s) |-> s[p[i]]] :
           p \in {q \in IndexOrders(Len(s)) : Consistent(s) => Stable(q)}}

\* A GET /canvas that answers [] without creating the directory.
MkdirSkipped == canvasExists

\* fs.mkdirSync(canvasDir, { recursive: true }): the directory exists.
MkdirSync == TRUE

\* GET /canvas.
ListCanvases ==
    IF ~canvasExists
    THEN /\ canvasExists' = MkdirSync
         /\ last' = [op |-> "list", status |-> 200, healed |-> TRUE, list |-> <<>>]
         /\ UNCHANGED <<fileDir, canvasDir, uploads, created>>
    ELSE /\ \E listing \in Listings(canvasDir) :
              LET files == SelectSeq(listing, LAMBDA f : EndsWith(f.name, DotJson))
                  parsed == [i \in 1..Len(files) |-> JsonParse(files[i].text)]
                  canvases == [i \in 1..Len(files) |-> parsed[i].value]
              IN IF \E i \in 1..Len(files) : ~parsed[i].ok
                 THEN last' = [op |-> "list", status |-> 500, healed |-> FALSE]
                 ELSE \E sorted \in SortResults(canvases) :
                        last' = [op |-> "list", status |-> 200, healed |-> FALSE,
                                 list |-> sorted, listing |-> [i \in 1..Len(files) |-> files[i].name]]
         /\ UNCHANGED <<fileDir, canvasExists, canvasDir, uploads, created>>

\* Arguments of GET /canvas/:id.
CanvasIdArgs == Strings(IdChars, 1, IdLen)

\* GET /canvas/:id.
GetCanvas(id) ==
    /\ LET filePath == id \o DotJson
           found == {e \in canvasDir : e.name = filePath}
       IN last' =
            IF found = {}
            THEN [op |-> "getById", arg |-> id, status |-> 404]
            ELSE LET parsed == JsonParse((CHOOSE e \in found : TRUE).text)
                 IN IF parsed.ok
                    THEN [op |-> "getById", arg |-> id, status |-> 200, body |-> parsed.value]
                    ELSE [op |-> "getById", arg |-> id, status |-> 500]
    /\ UNCHANGED <<fileDir, canvasExists, canvasDir, uploads, created>>

\* -------------------------------------------------------- environment
\* Something outside the service removes the document directory while it
\* is empty (rmdir): the case GET /canvas re-creates the directory for.
RemoveCanvasDir ==
    /\ canvasExists /\ canvasDir = {}
    /\ canvasExists' = FALSE
    /\ last' = [op |-> "rmdir"]
    /\ UNCHANGED <<fileDir, canvasDir, uploads, created>>

\* ------------------------------------------------------- specification
\* Both directories are created at start-up when missing.
Init ==
    /\ fileDir = {}
    /\ canvasExists = TRUE
    /\ canvasDir = {}
    /\ uploads = {}
    /\ created = {}
    /\ last = [op |-> "boot"]

Next ==
    \/ \E n \in Names, c \in Contents : UploadStart(n, c)
    \/ \E e \in fileDir : UploadWrite(e)
    \/ \E e \in fileDir : UploadFinish(e)
    \/ \E e \in fileDir : UploadStreamError(e)
    \/ UploadOpenError
    \/ UploadWithoutFile
    \/ UploadUnexpectedField
    \/ \E f \in FileIdArgs, err \in BOOLEAN : GetFile(f, err)
    \/ \E d \in CanvasBodies, fault \in WriteFaults, t \in Clock : CreateCanvas(d, fault, t)
    \/ ListCanvases
    \/ \E id \in CanvasIdArgs : GetCanvas(id)
    \/ RemoveCanvasDir

Spec == Init /\ [][Next]_vars

\* -------------------------------------------------------------- claims
DoneFiles == {e \in fileDir : e.st = "done"}
IdOfJson(name) == SubSeq(name, 1, Len(name) - Len(DotJson))
Stamp(o) == ObjGet(o, "createAt").n
Elems(l) == {l[i] : i \in 1..Len(l)}

\* C1: the structure POST /canvas stores and returns has `id` equal to the
\* generated identifier of its file name and `createAt` equal to the system
\* timestamp, whatever the caller's document carries.
C1_SystemFieldsWin ==
    (last.op = "create" /\ last.status = 201) =>
        /\ ObjGet(last.body, "id") = Str(IdOfJson(last.filename))
        /\ ObjGet(last.body, "createAt") = ToISOString(last.at)
        /\ \E e \in canvasDir :
              e.name = last.filename /\ JsonParse(e.text) = [ok |-> TRUE, value |-> last.body]

\* C2: the structure r returned by create has every field of the document
\* plus `id` and `createAt`, and GET /canvas/:id with r.id answers 200 with r
\* ever after.
C2_CreateThenGetById ==
    /\ (last.op = "create" /\ last.status = 201) =>
          (ObjKeys(last.req) \cup {"id", "createAt"}) \subseteq ObjKeys(last.body)
    /\ last.op = "getById" =>
          \A r \in created :
             ObjGet(r, "id") = Str(last.arg) => (last.status = 200 /\ last.body = r)

\* C3: GET /canvas lists a document created at a later instant before every
\* document created at an earlier one.
C3_ListNewestFirst ==
    (last.op = "list" /\ last.status = 200) =>
        \A i, j \in 1..Len(last.list) :
           Stamp(last.list[i]) > Stamp(last.list[j]) => i < j

\* C4: GET /file/:fileId with a fileId that POST /upload answered returns
\* the content of that upload, from that upload's entry, whatever else has
\* been uploaded or is being uploaded.
C4_GetReturnsUpload ==
    (last.op = "get" /\ last.fault = "none") =>
        \A u \in uploads :
           u.fileId = last.arg =>
              /\ last.status = 200
              /\ last.body = u.content
              /\ ParseName(last.served) = u.fileId

\* A read of one upload answered while another entry with other bytes is in
\* the directory.
C4_Witness ==
    /\ last.op = "get" /\ last.fault = "none" /\ last.status = 200
    /\ \E u \in uploads : u.fileId = last.arg
    /\ \E e \in fileDir : e.name # last.served /\ e.data # last.body

\* C5: GET /file/:fileId and GET /canvas/:id with an identifier no upload or
\* create has answered end with 404.
C5_UnknownIsNotFound ==
    /\ (last.op = "get" /\ last.fault = "none"
          /\ last.arg \notin {u.fileId : u \in uploads}) => last.status = 404
    /\ (last.op = "getById"
          /\ last.arg \notin {ObjGet(r, "id").s : r \in created}) => last.status = 404

FromLastDot(n) == IF LastDot(n) = 0 THEN <<>> ELSE SubSeq(n, LastDot(n), Len(n))

\* What POST /upload answers is the entry's name without its extension.
FileIdIsIdentifier ==
    (last.op = "upload" /\ last.status = 200) =>
        /\ last.fileId \in Ids
        /\ \E n \in Names : last.filename = last.fileId \o ExtName(n)

\* C6 as stated: the entry of an upload is named "<identifier><ext>" with ext
\* the part of the original name from its last "." on, empty exactly when
\* the name has no ".", and the fileId answered is the identifier.
C6_ExtFromLastDot ==
    /\ last.op = "uploadStart" =>
          \E id \in Ids : last.filename = id \o FromLastDot(last.orig)
    /\ FileIdIsIdentifier

\* C6 amended: ext is the part of the original name from its last "." on,
\* except that it is empty when the name has no ".", when its last "." is
\* its first character, or when the name is "..".
C6_ExtAsExtname ==
    /\ last.op = "uploadStart" =>
          \E id \in Ids :
             last.filename = id \o
                (IF last.orig = <<".", ".">> \/ LastDot(last.orig) = 1
                 THEN <<>> ELSE FromLastDot(last.orig))
    /\ FileIdIsIdentifier

\* An upload whose original name has its only "." in front has been stored.
C6_Witness ==
    /\ last.op = "uploadStart"
    /\ LastDot(last.orig) = 1 /\ Len(last.orig) > 1

\* C7: no step changes or removes an entry whose write has ended, nor
\* removes an entry being written or a directory holding entries; GET
\* /file/:fileId and GET /canvas/:id leave both directories as they are, and
\* GET /canvas at most creates the document directory.
C7_EntriesImmutable ==
    [][ /\ \A e \in fileDir : e.st # "writing" => e \in fileDir'
        /\ \A e \in fileDir : \E f \in fileDir' : f.name = e.name
        /\ \A e \in canvasDir : e \in canvasDir'
        /\ canvasDir # {} => canvasExists'
        /\ last'.op \in {"get", "getById"} =>
              (fileDir' = fileDir /\ canvasDir' = canvasDir /\ canvasExists' = canvasExists)
        /\ last'.op = "list" =>
              (fileDir' = fileDir /\ canvasDir' = canvasDir /\ canvasExists')
      ]_vars

\* A listing answered while both directories hold an entry whose write has
\* ended.
C7_Witness ==
    /\ last.op = "list"
    /\ DoneFiles # {}
    /\ canvasDir # {}

\* C8: GET /canvas on a missing or empty document directory answers 200
\* with [] and leaves the directory in place; a create on an existing
\* directory then succeeds bar an I/O failure, and a listing of a directory
\* of completed documents answers 200 with exactly the created documents.
C8_ListHealsDirectory ==
    /\ last.op = "list" => canvasExists
    /\ (last.op = "list" /\ (last.healed \/ canvasDir = {})) =>
          (last.status = 200 /\ last.list = <<>>)
    /\ (last.op = "create" /\ last.dir /\ last.fault = "none") =>
          /\ last.status = 201
          /\ last.body \in created
          /\ \E e \in canvasDir : e.name = last.filename /\ e.st = "done"
    /\ (last.op = "list" /\ canvasDir # {} /\ \A e \in canvasDir : e.st = "done") =>
          /\ last.status = 200
          /\ Elems(last.list) = created
          /\ Len(last.list) = Cardinality(canvasDir)

\* GET /canvas has just found the document directory missing.
C8_Witness ==
    last.op = "list" /\ last.healed

\* C9: an upload or create that ends with a storage error answers without
\* an identifier, and no read returns an entry such a request wrote.
C9_FailedWriteInvisible ==
    /\ (last.op \in {"upload", "create"} /\ last.status = 500) =>
          ("fileId" \notin DOMAIN last /\ "body" \notin DOMAIN last)
    /\ (last.op = "get" /\ last.status = 200) =>
          \A e \in fileDir : e.name = last.served => e.st # "failed"
    /\ (last.op = "getById" /\ last.status = 200) => last.body \in created
    /\ (last.op = "list" /\ last.status = 200) => Elems(last.list) \subseteq created

\* C10: POST /upload answers 400 without a fileId whenever field `file`
\* carries no file, and 200 with a fileId exactly when it does, one entry
\* then bearing a name that starts with the fileId.
C10_UploadStatus ==
    last.op = "upload" =>
        /\ last.field # "file" => (last.status = 400 /\ "fileId" \notin DOMAIN last)
        /\ (last.field = "file" /\ last.fault = "none") => last.status = 200
        /\ last.status = 200 =>
              /\ last.field = "file"
              /\ Cardinality({e \in fileDir : StartsWith(e.name, last.fileId)}) = 1

====
